---- MODULE Spec2Model ----
(***************************************************************************)
(* Model of ChatManager (src/src/chat-manager.ts): the chat store, the     *)
(* reply stream handlers of getReply, the persistence loop and the         *)
(* replication channel's onmessage handler.                                *)
(*                                                                         *)
(* Encoding.  Strings are sequences of tokens.  JavaScript objects that    *)
(* are shared by reference (Chat objects) live in `heap`; a reference is   *)
(* an index into it.  An optional value (undefined or a value) is a        *)
(* sequence of length 0 or 1.  uuidv4() is a counter: every id is fresh.   *)
(* NoId stands for an absent id (undefined / null).  A message's timestamp *)
(* field, which ChatManager writes once and never reads, is left out.      *)
(*                                                                         *)
(* A step is one run of a handler from its start to its next await; the    *)
(* variables emitted, posted, lastOp and lastError describe the last step. *)
(***************************************************************************)
EXTENDS Integers, Sequences, FiniteSets, TLC

\* ---- bounds of the model ------------------------------------------------
MaxTime == 1        \* steps happen at the times 0..MaxTime
MaxCreate == 1      \* createChat calls
MaxRecv == 1        \* envelopes received on the replication channel
MaxTurns == 1       \* reply turns started (sendMessage / regenerate)
MaxData == 2        \* data events of one reply turn
MaxStored == 11     \* chats in the durable store of the runs that query the search
MaxHits == 1        \* documents one search of the index returns

\* an absent id: undefined or null
NoId == 0

\* uuidv4() never returns an id in use: the ids this replica draws are 1..IdLimit,
\* the ids found in the durable store or drawn by other replicas lie above
IdLimit == MaxCreate + 2 * (MaxTurns + 1)
StoredChatID == IdLimit + 1   \* the chat found in the durable store at start
StoredMsgID == IdLimit + 2    \* its root message
StoredReplyID == IdLimit + 3  \* the reply to it
ForeignChatID == IdLimit + 4  \* a chat created by another replica
ForeignMsgID == IdLimit + 5   \* a message created by another replica
ForeignReplyID == IdLimit + 6 \* the reply to it
\* the i-th chat of a larger durable store, and its root message
ListedChatID(i) == ForeignReplyID + 2 * i - 1
ListedMsgID(i) == ForeignReplyID + 2 * i

VARIABLES
    now,          \* the time of the last chat operation or stream event
    nextId,       \* uuidv4(): ids handed out so far
    heap,         \* Chat objects; a reference is an index
    chats,        \* ChatManager.chats: entries [key, ref] in insertion order
    index,        \* Search.index: set of documents [id, value]
    timers,       \* setTimeout(() => search.update(chat), 500): references, in order
    loaded,       \* ChatManager.loaded
    changed,      \* ChatManager.changed
    loadPc,       \* load(): "reading" (awaiting idb.get) | "done"
    loopPc,       \* persistence loop: "sleeping" | "writing" | "dead"
    pendingWrite, \* value handed to idb.set, while the write is awaited
    durable,      \* durable store slot 'chats': <<>> (absent) or <<list of chats>>
    flushFailed,  \* an idb.set has rejected
    turns,        \* reply turns: closures of getReply's handlers
    emitted,      \* events emitted by the last step, in order
    posted,       \* envelopes posted to the channel by the last step, in order
    lastOp,       \* the last step: operation and its arguments
    lastError,    \* error thrown by the last step ("" when none)
    nCreate,      \* createChat calls so far
    nRecv,        \* envelopes received so far
    turnCap       \* reply turns the run may start: fixed by the initial state

vars == <<now, nextId, heap, chats, index, timers, loaded, changed, loadPc, loopPc,
          pendingWrite, durable, flushFailed, turns, emitted, posted, lastOp,
          lastError, nCreate, nRecv, turnCap>>

\* ---- strings -------------------------------------------------------------
WS == {"\n", " "}

RECURSIVE TrimStart(_)
TrimStart(s) == IF s # <<>> /\ Head(s) \in WS THEN TrimStart(Tail(s)) ELSE s

RECURSIVE TrimEnd(_)
TrimEnd(s) ==
    IF s # <<>> /\ s[Len(s)] \in WS THEN TrimEnd(SubSeq(s, 1, Len(s) - 1)) ELSE s

\* String.prototype.trim
Trim(s) == TrimEnd(TrimStart(s))

\* the literal appended by the error handler, and what trim() leaves of it
ApologyLiteral == <<"\n", "\n", "I'm sorry, I'm having trouble connecting to OpenAI.">>
ApologyText == <<"I'm sorry, I'm having trouble connecting to OpenAI.">>

\* cumulative texts a data event can carry
DataTexts == {<<>>, <<"a">>, <<"a", "b">>}
\* contents a user can submit
UserTexts == {<<"q">>}
\* results of createTitle: nothing, or a title
TitleResults == {<<>>, <<<<"T">>>>}

\* JavaScript truthiness of an optional string
Truthy(opt) == opt # <<>> /\ opt[1] # <<>>

\* string conversion of an optional string in a concatenation
Str(opt) == IF opt = <<>> THEN <<"undefined">> ELSE opt[1]

RECURSIVE Join(_, _)
\* Array.prototype.join
Join(strs, sep) ==
    IF strs = <<>> THEN <<>>
    ELSE IF Len(strs) = 1 THEN strs[1]
    ELSE strs[1] \o sep \o Join(Tail(strs), sep)

\* ---- MessageTree (message-tree.ts) ---------------------------------------
\* A tree is the sequence of its nodes in insertion order; a node is the
\* message plus the ids of its replies.
NodeOf(m) ==
    [id |-> m.id, parentID |-> m.parentID, chatID |-> m.chatID,
     role |-> m.role, content |-> m.content,
     done |-> m.done, replies |-> <<>>]

MessageOf(n) ==
    [id |-> n.id, parentID |-> n.parentID, chatID |-> n.chatID,
     role |-> n.role, content |-> n.content,
     done |-> n.done]

HasNode(tree, id) == \E i \in DOMAIN tree : tree[i].id = id

NodeAt(tree, id) == tree[CHOOSE i \in DOMAIN tree : tree[i].id = id]

AddMessage(tree, m) ==
    IF HasNode(tree, m.id) THEN tree
    ELSE Append([i \in DOMAIN tree |->
                    IF tree[i].id = m.parentID
                    THEN [tree[i] EXCEPT !.replies = Append(@, m.id)]
                    ELSE tree[i]],
                NodeOf(m))

UpdateMessage(tree, m) ==
    [i \in DOMAIN tree |->
        IF tree[i].id = m.id
        THEN [tree[i] EXCEPT !.content = m.content, !.done = m.done]
        ELSE tree[i]]

RECURSIVE ChainTo(_, _, _)
ChainTo(tree, id, fuel) ==
    IF fuel = 0 \/ ~HasNode(tree, id) THEN <<>>
    ELSE LET n == NodeAt(tree, id)
         IN  (IF n.parentID = NoId THEN <<>> ELSE ChainTo(tree, n.parentID, fuel - 1))
             \o <<MessageOf(n)>>

GetMessageChainTo(tree, id) == ChainTo(tree, id, Len(tree))

Serialize(tree) == [i \in DOMAIN tree |-> MessageOf(tree[i])]

RECURSIVE Reconstruct(_)
\* load(): a new MessageTree, addMessage for every stored message in order
Reconstruct(msgs) ==
    IF msgs = <<>> THEN <<>>
    ELSE AddMessage(Reconstruct(SubSeq(msgs, 1, Len(msgs) - 1)), msgs[Len(msgs)])

\* ---- the chats Map ---------------------------------------------------------
Keys(m) == {m[i].key : i \in DOMAIN m}

MapHas(m, k) == k \in Keys(m)

MapGet(m, k) == m[CHOOSE i \in DOMAIN m : m[i].key = k].ref

MapSet(m, k, r) ==
    IF MapHas(m, k)
    THEN [i \in DOMAIN m |-> IF m[i].key = k THEN [key |-> k, ref |-> r] ELSE m[i]]
    ELSE Append(m, [key |-> k, ref |-> r])

\* ---- Search.update ---------------------------------------------------------
SearchDoc(chat) ==
    [id |-> chat.id,
     value |-> Str(chat.title) \o <<"\n\n">>
               \o Join([i \in DOMAIN chat.messages |->
                            Serialize(chat.messages)[i].content],
                       <<"\n\n">>)]

SearchUpdate(idx, chat) ==
    IF ~(\E d \in idx : d.id = chat.id)
    THEN idx \cup {SearchDoc(chat)}
    ELSE {d \in idx : d.id # chat.id} \cup {SearchDoc(chat)}

\* ---- Search.query and processSearchResults -------------------------------------
QueryLimit == 10          \* slice(0, 10)
DescriptionLength == 400  \* ellipsize(description, 400)
TitleLength == 100        \* ellipsize(description, 100)

\* ellipsize (utils): a text longer than maxLength is cut there and marked
Ellipsize(text, maxLength) ==
    IF Len(text) > maxLength THEN SubSeq(text, 1, maxLength) \o <<"...">> ELSE text

\* MessageTree.first: the effective root's message, if the tree has one
First(tree) == IF tree = <<>> THEN <<>> ELSE <<MessageOf(tree[1])>>

\* chat.messages?.first?.content || '', ellipsized
Description(chat) ==
    LET first == First(chat.messages)
    IN  Ellipsize(IF first = <<>> THEN <<>> ELSE first[1].content, DescriptionLength)

\* the title of a result: the chat's, or the description's start when it has none
ResultTitle(chat, description) ==
    IF ~Truthy(chat.title) THEN Ellipsize(description, TitleLength) ELSE chat.title[1]

\* if (!chat.title || !description) continue
SkipsResult(title, description) == title = <<>> \/ description = <<>>

RECURSIVE ProcessSearchResults(_, _, _)
\* items: the ids of the hits (or chats) in order; m, h: the chats Map and the objects
ProcessSearchResults(items, m, h) ==
    IF items = <<>> THEN <<>>
    ELSE LET chatID == Head(items)
             rest == ProcessSearchResults(Tail(items), m, h)
         IN  IF ~MapHas(m, chatID) THEN rest
             ELSE LET chat == h[MapGet(m, chatID)]
                      description == Description(chat)
                      title == ResultTitle(chat, description)
                  IN  IF SkipsResult(title, description) THEN rest
                      ELSE <<[chatID |-> chatID, title |-> title,
                              description |-> description]>> \o rest

\* a comparator that sorts the oldest first
CompareOldestFirst(a, b) == a.updated - b.updated

\* the comparator of the sort: (a, b) => b.updated - a.updated
Compare(a, b) == b.updated - a.updated

RECURSIVE InsertSorted(_, _)
\* c placed behind every element that does not compare after it
InsertSorted(sorted, c) ==
    IF sorted = <<>> THEN <<c>>
    ELSE IF Compare(Head(sorted), c) <= 0
         THEN <<Head(sorted)>> \o InsertSorted(Tail(sorted), c)
         ELSE <<c>> \o sorted

RECURSIVE Sort(_)
\* Array.prototype.sort: stable
Sort(cs) ==
    IF cs = <<>> THEN <<>>
    ELSE InsertSorted(Sort(SubSeq(cs, 1, Len(cs) - 1)), cs[Len(cs)])

\* Array.prototype.slice(0, n)
Slice(cs, n) == SubSeq(cs, 1, IF Len(cs) < n THEN Len(cs) ELSE n)

\* Array.from(this.chats.values()).sort(...).slice(0, 10)
RecentChats(m, h) == Slice(Sort([i \in DOMAIN m |-> h[m[i].ref]]), QueryLimit)

\* !query?.trim().length
Blank(query) == Len(Trim(query)) = 0

\* the items query hands to the processSearchResults call whose output it returns;
\* fuzzy and prefix are the hits of the two searches of the index
QueryItems(query, fuzzy, prefix, m, h) ==
    IF Blank(query)
    THEN LET recent == RecentChats(m, h) IN [i \in DOMAIN recent |-> recent[i].id]
    ELSE IF ProcessSearchResults(fuzzy, m, h) # <<>> THEN fuzzy ELSE prefix

\* ---- events and envelopes --------------------------------------------------
EvChat(id) == [ev |-> "chat", id |-> id]
EvMessages(msgs) == [ev |-> "messages", msgs |-> msgs]
EvTitle(id, title) == [ev |-> "title", id |-> id, title |-> title]
EvUpdate == [ev |-> "update"]

\* channel.postMessage({ type: 'chat-update', data: chat }): the chat as it is now
Envelope(chat) == [type |-> "chat-update", data |-> <<chat>>]

\* save(): every chat of the map, in Map order, its tree serialized
SerializeAll(m, h) ==
    [i \in DOMAIN m |-> [h[m[i].ref] EXCEPT !.messages = Serialize(@)]]

\* the durable store's content when the program starts, if any: one chat with a
\* user message and the finished reply to it
StoredChats ==
    << [id |-> StoredChatID, title |-> <<>>,
        messages |-> << [id |-> StoredMsgID, parentID |-> NoId, chatID |-> StoredChatID,
                         role |-> "user", content |-> <<"q">>, done |-> TRUE],
                        [id |-> StoredReplyID, parentID |-> StoredMsgID,
                         chatID |-> StoredChatID, role |-> "assistant",
                         content |-> <<"r">>, done |-> TRUE] >>,
        created |-> 0, updated |-> 0] >>

\* a larger durable store: n chats, each with one root message "q" and no title,
\* except the k-th, which is of a kind of its own; the updated stamps lie in the
\* past of the program's start and rise, fall or go up and down along the list
Orders == {"rising", "falling", "mixed"}
Kinds == {"titled", "titledEmpty", "untitledEmpty", "noMessages"}

ListedUpdated(order, n, i) ==
    IF order = "rising" THEN i - n
    ELSE IF order = "falling" THEN 0 - i
    ELSE 0 - ((i * 5) % 7)

ListedChat(i, kind, updated) ==
    [id |-> ListedChatID(i),
     title |-> IF kind \in {"titled", "titledEmpty"} THEN <<<<"T">>>> ELSE <<>>,
     messages |-> IF kind = "noMessages" THEN <<>>
                  ELSE << [id |-> ListedMsgID(i), parentID |-> NoId,
                           chatID |-> ListedChatID(i), role |-> "user",
                           content |-> IF kind \in {"titledEmpty", "untitledEmpty"}
                                       THEN <<>> ELSE <<"q">>,
                           done |-> TRUE] >>,
     created |-> 0 - MaxStored, updated |-> updated]

ListedChats(n, order, k, kind) ==
    [i \in 1 .. n |-> ListedChat(i, IF i = k THEN kind ELSE "plain",
                                 ListedUpdated(order, n, i))]

ListedStores ==
    {ListedChats(n, order, 0, "plain") : n \in 0 .. MaxStored, order \in Orders}
    \cup {ListedChats(p[1], order, p[2], kind) :
            p \in {q \in (1 .. MaxStored) \X (1 .. MaxStored) : q[2] <= q[1]},
            order \in Orders, kind \in Kinds}

\* ---- initial state: the module has been evaluated, the constructor has run ---
\* stores: what the durable store can hold at start; cap: the turns of the run
StartState(stores, cap) ==
    /\ now = 0
    /\ nextId = 0
    /\ heap = <<>>
    /\ chats = <<>>
    /\ index = {}
    /\ timers = <<>>
    /\ loaded = FALSE
    /\ changed = FALSE
    /\ loadPc = "reading"
    /\ loopPc = "sleeping"
    /\ pendingWrite = <<>>
    /\ durable \in stores
    /\ flushFailed = FALSE
    /\ turns = <<>>
    /\ emitted = <<>>
    /\ posted = <<>>
    /\ lastOp = [op |-> "constructor"]
    /\ lastError = ""
    /\ nCreate = 0
    /\ nRecv = 0
    /\ turnCap = cap

Init == StartState({<<>>, <<StoredChats>>}, MaxTurns)

\* the program started on the stored chat, in a run with one reply turn more
InitTurns == StartState({<<StoredChats>>}, MaxTurns + 1)

\* the program started on one of the larger durable stores
InitQuery == StartState({<<st>> : st \in ListedStores}, MaxTurns)

\* a listener that misses the 'update' emitted while a flush awaits its write
DirtyUnlessWriting(events) ==
    IF loopPc # "writing" /\ (\E i \in DOMAIN events : events[i] = EvUpdate)
    THEN TRUE ELSE changed

\* the 'update' listener of the constructor: any emitted 'update' sets the flag
Dirty(events) ==
    IF \E i \in DOMAIN events : events[i] = EvUpdate THEN TRUE ELSE changed

\* what a step leaves alone, by group
Persist == <<loaded, loadPc, loopPc, pendingWrite, durable, flushFailed>>
Counters == <<nCreate, nRecv, turnCap>>

\* a chat operation or stream event ends at a time t, the value its last call of
\* Date.now() returns: time does not run backwards.  Where a handler keeps the
\* values of two calls (createChat in created and updated, sendMessage in the
\* updated of its two envelopes), the earlier call has a value of its own.
At(t) == t \in now .. MaxTime /\ now' = t

\* ---- createChat ------------------------------------------------------------
\* the chat object createChat builds: created and updated are two reads of the clock
NewChat(id, created, updated) ==
    [id |-> id, title |-> <<>>, messages |-> <<>>,
     created |-> created, updated |-> updated]

CreateChat ==
    /\ nCreate < MaxCreate
    /\ \E t1 \in now .. MaxTime, t2 \in now .. MaxTime :
        LET id == nextId + 1
            chat == NewChat(id, t1, t2)
        IN  /\ t1 <= t2
            /\ At(t2)
            /\ nextId' = id
            /\ heap' = Append(heap, chat)
            /\ chats' = MapSet(chats, id, Len(heap) + 1)
            /\ index' = SearchUpdate(index, chat)
            /\ posted' = <<Envelope(chat)>>
            /\ emitted' = <<>>
            /\ lastOp' = [op |-> "createChat", id |-> id]
    /\ lastError' = ""
    /\ changed' = Dirty(emitted')
    /\ nCreate' = nCreate + 1
    /\ UNCHANGED <<timers, turns, nRecv, turnCap>>
    /\ UNCHANGED Persist

\* ---- getReply, up to its await -----------------------------------------------
\* a getReply that writes its reply over the message it answers: no fresh id
NewReplyOverLatest(id, latest) ==
    [id |-> latest.id, parentID |-> latest.id, chatID |-> latest.chatID,
     role |-> "assistant", content |-> <<>>, done |-> FALSE]

\* the reply node getReply creates under the last message of the context
NewReply(id, latest) ==
    [id |-> id, parentID |-> latest.id, chatID |-> latest.chatID,
     role |-> "assistant", content |-> <<>>, done |-> FALSE]

\* the closure the handlers of one reply turn share: the chat object, the reply
\* object, the context sent; pc, nData, lastData and term record the transport's
\* progress (events delivered, text of the last data event, terminal event)
NewTurn(ref, reply, context) ==
    [chat |-> ref, reply |-> reply, pc |-> "streaming", nData |-> 0,
     lastData |-> <<>>, term |-> "none",
     context |-> [i \in DOMAIN context |-> context[i].id]]

\* ---- sendMessage -------------------------------------------------------------
\* a sendMessage that drops the submission's parentID
NewUserMessageAtRoot(id, chat, parentID, content) ==
    [id |-> id, parentID |-> NoId, chatID |-> chat.id,
     role |-> "user", content |-> content, done |-> TRUE]

\* const newMessage: Message = { id: uuidv4(), parentID: message.parentID, ... }
NewUserMessage(id, chat, parentID, content) ==
    [id |-> id, parentID |-> parentID, chatID |-> chat.id,
     role |-> "user", content |-> content, done |-> TRUE]

\* the chat lookup of sendMessage / regenerate / getReply
ChatFound(chatID) == MapHas(chats, chatID)

\* ids of the messages of a chat, and NoId: the parents a caller can name
ParentsIn(chat) == {NoId} \cup {chat.messages[i].id : i \in DOMAIN chat.messages}

SendMessageOK(chatID, parentID, content) ==
    /\ ChatFound(chatID)
    /\ Len(turns) < turnCap
    /\ \E t1 \in now .. MaxTime, t \in now .. MaxTime :
        LET ref == MapGet(chats, chatID)
            chat == heap[ref]
            newMessage == NewUserMessage(nextId + 1, chat, parentID, content)
            tree1 == AddMessage(chat.messages, newMessage)
            chat1 == [chat EXCEPT !.messages = tree1, !.updated = t1]
            messages == (IF parentID # NoId THEN GetMessageChainTo(tree1, parentID)
                         ELSE <<>>) \o <<newMessage>>
            latest == messages[Len(messages)]
            reply == NewReply(nextId + 2, latest)
            chat2 == [chat1 EXCEPT !.messages = AddMessage(@, reply), !.updated = t]
        IN  /\ t1 <= t
            /\ At(t)
            /\ parentID \in ParentsIn(chat)
            /\ nextId' = nextId + 2
            /\ heap' = [heap EXCEPT ![ref] = chat2]
            /\ emitted' = <<EvChat(chat.id), EvMessages(<<newMessage>>), EvChat(chat.id)>>
            /\ posted' = <<Envelope(chat1), Envelope(chat2)>>
            /\ turns' = Append(turns, NewTurn(ref, reply, messages))
            /\ lastOp' = [op |-> "sendMessage", chatID |-> chatID, parentID |-> parentID,
                          user |-> newMessage.id, reply |-> reply.id]
    /\ lastError' = ""
    /\ changed' = Dirty(emitted')
    /\ UNCHANGED <<chats, index, timers>>
    /\ UNCHANGED Persist
    /\ UNCHANGED Counters

\* a call that throws before it has changed anything
Throws(op, err) ==
    /\ lastOp' = op
    /\ lastError' = err
    /\ emitted' = <<>>
    /\ posted' = <<>>
    /\ changed' = Dirty(emitted')
    /\ UNCHANGED <<now, nextId, heap, chats, index, timers, turns>>
    /\ UNCHANGED Persist
    /\ UNCHANGED Counters

\* a buggy sendMessage that registers the chat it does not find
SendMessageAutoCreate(chatID, parentID, content) ==
    /\ ~ChatFound(chatID)
    /\ nCreate < MaxCreate
    /\ heap' = Append(heap, NewChat(chatID, now, now))
    /\ chats' = MapSet(chats, chatID, Len(heap) + 1)
    /\ posted' = <<Envelope(NewChat(chatID, now, now))>>
    /\ emitted' = <<EvChat(chatID)>>
    /\ lastOp' = [op |-> "sendMessage", chatID |-> chatID, parentID |-> parentID]
    /\ lastError' = ""
    /\ changed' = Dirty(emitted')
    /\ nCreate' = nCreate + 1
    /\ UNCHANGED <<now, nextId, index, timers, turns, nRecv, turnCap>>
    /\ UNCHANGED Persist

SendMessageNotFound(chatID, parentID, content) ==
    /\ ~ChatFound(chatID)
    /\ Throws([op |-> "sendMessage", chatID |-> chatID, parentID |-> parentID],
              "Chat not found")

\* chat ids a caller can name: the keys of the store and one that is unknown
CallerChatIDs == Keys(chats) \cup {ForeignChatID}

SendMessage ==
    \E chatID \in CallerChatIDs, content \in UserTexts :
        \/ \E parentID \in ParentsIn(IF ChatFound(chatID) THEN heap[MapGet(chats, chatID)]
                                     ELSE NewChat(chatID, 0, 0)) :
               SendMessageOK(chatID, parentID, content)
        \/ SendMessageNotFound(chatID, NoId, content)

\* ---- regenerate --------------------------------------------------------------
\* the context regenerate hands to getReply
RegenerateContext(chat, message) ==
    IF message.parentID # NoId
    THEN GetMessageChainTo(chat.messages, message.parentID)
    ELSE <<>>

RegenerateOK(chatID, message) ==
    /\ ChatFound(chatID)
    /\ Len(turns) < turnCap
    /\ LET messages == RegenerateContext(heap[MapGet(chats, chatID)], message)
       IN  /\ messages # <<>>
           /\ \E t \in now .. MaxTime :
               LET latest == messages[Len(messages)]
                   ref == MapGet(chats, latest.chatID)
                   chat == heap[ref]
                   reply == NewReply(nextId + 1, latest)
                   chat1 == [chat EXCEPT !.messages = AddMessage(@, reply),
                                         !.updated = t]
               IN  /\ At(t)
                   /\ ChatFound(latest.chatID)
                   /\ nextId' = nextId + 1
                   /\ heap' = [heap EXCEPT ![ref] = chat1]
                   /\ emitted' = <<EvChat(chat.id)>>
                   /\ posted' = <<Envelope(chat1)>>
                   /\ turns' = Append(turns, NewTurn(ref, reply, messages))
                   /\ lastOp' = [op |-> "regenerate", chatID |-> chatID,
                                 message |-> message.id, parentID |-> message.parentID,
                                 reply |-> reply.id]
    /\ lastError' = ""
    /\ changed' = Dirty(emitted')
    /\ UNCHANGED <<chats, index, timers>>
    /\ UNCHANGED Persist
    /\ UNCHANGED Counters

\* getReply with an empty context: messages[-1] is undefined, reading its chatID throws
RegenerateEmptyContext(chatID, message) ==
    /\ ChatFound(chatID)
    /\ RegenerateContext(heap[MapGet(chats, chatID)], message) = <<>>
    /\ Throws([op |-> "regenerate", chatID |-> chatID, message |-> message.id,
               parentID |-> message.parentID],
              "TypeError")

RegenerateNotFound(chatID, message) ==
    /\ ~ChatFound(chatID)
    /\ Throws([op |-> "regenerate", chatID |-> chatID, message |-> message.id,
               parentID |-> message.parentID],
              "Chat not found")

\* the messages of another replica's chat
ForeignMessage(chatID) ==
    [id |-> ForeignMsgID, parentID |-> NoId, chatID |-> chatID,
     role |-> "user", content |-> <<"f">>, done |-> TRUE]

ForeignReply(chatID) ==
    [id |-> ForeignReplyID, parentID |-> ForeignMsgID, chatID |-> chatID,
     role |-> "assistant", content |-> <<"g">>, done |-> TRUE]

\* messages a caller can hand to regenerate: those of the chat it names
MessagesOf(chatID) ==
    IF ChatFound(chatID)
    THEN LET tree == heap[MapGet(chats, chatID)].messages
         IN  {MessageOf(tree[i]) : i \in DOMAIN tree}
    ELSE {ForeignMessage(chatID)}

Regenerate ==
    \E chatID \in CallerChatIDs :
        \E message \in MessagesOf(chatID) :
            \/ RegenerateOK(chatID, message)
            \/ RegenerateEmptyContext(chatID, message)
            \/ RegenerateNotFound(chatID, message)

\* ---- the handlers getReply attaches to the response ---------------------------
\* the guard of the error handler, !reply.content, answered always
ErrorAppliesAlways(reply) == TRUE

\* the guard of the error handler: !reply.content
ErrorApplies(reply) == reply.content = <<>>

\* the error handler without its trim()
ErrorReplyUntrimmed(reply) ==
    [reply EXCEPT !.content = reply.content \o ApologyLiteral, !.done = TRUE]

\* the reply as the error handler leaves it when it applies
ErrorReply(reply) ==
    [reply EXCEPT !.content = Trim(reply.content \o ApologyLiteral), !.done = TRUE]

\* the reply as the data handler leaves it
DataReply(reply, text) == [reply EXCEPT !.content = text]

\* the reply as the done handler leaves it
DoneReply(reply) == [reply EXCEPT !.done = TRUE]

\* the transport yields cumulative text: what it sent before is a prefix
Cumulative(old, text) == Len(old) <= Len(text) /\ SubSeq(text, 1, Len(old)) = old

StreamData(i, text) ==
    /\ turns[i].pc = "streaming"
    /\ turns[i].nData < MaxData
    /\ Cumulative(turns[i].reply.content, text)
    /\ \E t \in now .. MaxTime : At(t)
    /\ LET ref == turns[i].chat
           reply == DataReply(turns[i].reply, text)
           chat == [heap[ref] EXCEPT !.messages = UpdateMessage(@, reply)]
       IN  /\ turns' = [turns EXCEPT ![i].reply = reply, ![i].nData = @ + 1,
                                     ![i].lastData = <<text>>]
           /\ heap' = [heap EXCEPT ![ref] = chat]
           /\ emitted' = <<EvChat(chat.id)>>
           /\ posted' = <<Envelope(chat)>>
    /\ lastOp' = [op |-> "data", turn |-> i, text |-> text]
    /\ lastError' = ""
    /\ changed' = Dirty(emitted')
    /\ UNCHANGED <<nextId, chats, index, timers>>
    /\ UNCHANGED Persist
    /\ UNCHANGED Counters

StreamError(i) ==
    /\ turns[i].pc = "streaming"
    /\ \E t \in now .. MaxTime :
        LET ref == turns[i].chat
            reply == ErrorReply(turns[i].reply)
            chat == [heap[ref] EXCEPT !.messages = UpdateMessage(@, reply),
                                      !.updated = t]
        IN  /\ At(t)
            /\ IF ErrorApplies(turns[i].reply)
               THEN /\ turns' = [turns EXCEPT ![i].reply = reply, ![i].pc = "closed",
                                              ![i].term = "error"]
                    /\ heap' = [heap EXCEPT ![ref] = chat]
                    /\ emitted' = <<EvChat(chat.id), EvMessages(<<reply>>)>>
                    /\ posted' = <<Envelope(chat)>>
               ELSE /\ turns' = [turns EXCEPT ![i].pc = "closed", ![i].term = "error"]
                    /\ heap' = heap
                    /\ emitted' = <<>>
                    /\ posted' = <<>>
    /\ lastOp' = [op |-> "error", turn |-> i]
    /\ lastError' = ""
    /\ changed' = Dirty(emitted')
    /\ UNCHANGED <<nextId, chats, index, timers>>
    /\ UNCHANGED Persist
    /\ UNCHANGED Counters

\* the done handler, up to its await of createTitle
StreamDone(i) ==
    /\ turns[i].pc = "streaming"
    /\ \E t \in now .. MaxTime :
        LET ref == turns[i].chat
            reply == DoneReply(turns[i].reply)
            chat == [heap[ref] EXCEPT !.messages = UpdateMessage(@, reply),
                                      !.updated = t]
        IN  /\ At(t)
            /\ turns' = [turns EXCEPT ![i].reply = reply, ![i].term = "done",
                            ![i].pc = IF ~Truthy(chat.title) THEN "titling" ELSE "closed"]
            /\ heap' = [heap EXCEPT ![ref] = chat]
            /\ emitted' = <<EvChat(chat.id), EvMessages(<<reply>>), EvUpdate>>
            /\ posted' = <<Envelope(chat)>>
            /\ timers' = Append(timers, ref)
    /\ lastOp' = [op |-> "done", turn |-> i]
    /\ lastError' = ""
    /\ changed' = Dirty(emitted')
    /\ UNCHANGED <<nextId, chats, index>>
    /\ UNCHANGED Persist
    /\ UNCHANGED Counters

\* the done handler after createTitle has resolved with `title`
TitleDone(i, title) ==
    /\ turns[i].pc = "titling"
    /\ \E t \in now .. MaxTime : At(t)
    /\ LET ref == turns[i].chat
           chat == [heap[ref] EXCEPT !.title = title]
       IN  /\ turns' = [turns EXCEPT ![i].pc = "closed"]
           /\ heap' = [heap EXCEPT ![ref] = chat]
           /\ IF Truthy(title)
              THEN /\ emitted' = <<EvChat(chat.id), EvTitle(chat.id, title), EvUpdate>>
                   /\ posted' = <<Envelope(chat)>>
                   /\ timers' = Append(timers, ref)
              ELSE /\ emitted' = <<>>
                   /\ posted' = <<>>
                   /\ timers' = timers
    /\ lastOp' = [op |-> "title", turn |-> i]
    /\ lastError' = ""
    /\ changed' = Dirty(emitted')
    /\ UNCHANGED <<nextId, chats, index>>
    /\ UNCHANGED Persist
    /\ UNCHANGED Counters

Stream ==
    \E i \in DOMAIN turns :
        \/ \E text \in DataTexts : StreamData(i, text)
        \/ StreamError(i)
        \/ StreamDone(i)
        \/ \E title \in TitleResults : TitleDone(i, title)

\* setTimeout(() => this.search.update(chat), 500) fires
SearchTimer ==
    /\ timers # <<>>
    /\ index' = SearchUpdate(index, heap[Head(timers)])
    /\ timers' = Tail(timers)
    /\ emitted' = <<>>
    /\ posted' = <<>>
    /\ lastOp' = [op |-> "searchTimer"]
    /\ lastError' = ""
    /\ changed' = Dirty(emitted')
    /\ UNCHANGED <<now, nextId, heap, chats, turns>>
    /\ UNCHANGED Persist
    /\ UNCHANGED Counters

\* ---- channel.onmessage -------------------------------------------------------
\* a chat as another replica broadcasts it
ForeignChat(id, updated) ==
    [id |-> id, title |-> <<>>,
     messages |-> AddMessage(AddMessage(<<>>, ForeignMessage(id)), ForeignReply(id)),
     created |-> 0, updated |-> updated]

\* envelopes the channel can deliver: snapshots of known or unknown chats, with
\* any updated timestamp, and malformed ones (data without an id, no data)
Envelopes ==
    {Envelope(ForeignChat(id, u)) :
        id \in (Keys(chats) \ {NoId}) \cup {ForeignChatID}, u \in {0, MaxTime}}
    \cup {Envelope([title |-> <<>>, messages |-> <<>>, created |-> 0, updated |-> 0,
                    id |-> NoId])}
    \cup {[type |-> "chat-update", data |-> <<>>]}

\* a handler that keeps the local chat when the incoming one is older
StoreReceivedIfNewer(m, h, data) ==
    IF MapHas(m, data.id) /\ h[MapGet(m, data.id)].updated > data.updated
    THEN [heap |-> h, chats |-> m]
    ELSE [heap |-> Append(h, data), chats |-> MapSet(m, data.id, Len(h) + 1)]

\* const id = message.data.id; this.chats.set(id, message.data)
StoreReceived(m, h, data) ==
    [heap |-> Append(h, data), chats |-> MapSet(m, data.id, Len(h) + 1)]

Receive(message) ==
    /\ nRecv < MaxRecv
    /\ nRecv' = nRecv + 1
    /\ \E t \in now .. MaxTime : At(t)
    /\ IF message.data = <<>>
       THEN /\ lastError' = "TypeError"
            /\ emitted' = <<>>
            /\ lastOp' = [op |-> "onmessage", message |-> message, replaced |-> <<>>]
            /\ UNCHANGED <<heap, chats>>
       ELSE LET data == message.data[1]
                st == StoreReceived(chats, heap, data)
            IN  /\ heap' = st.heap
                /\ chats' = st.chats
                /\ emitted' = <<EvChat(data.id)>>
                /\ lastOp' = [op |-> "onmessage", message |-> message,
                              replaced |-> IF MapHas(chats, data.id)
                                           THEN <<MapGet(chats, data.id)>> ELSE <<>>]
                /\ lastError' = ""
    /\ posted' = <<>>
    /\ changed' = Dirty(emitted')
    /\ UNCHANGED <<nextId, index, timers, turns, nCreate, turnCap>>
    /\ UNCHANGED Persist

OnMessage == \E message \in Envelopes : Receive(message)

\* ---- load and loadChat ---------------------------------------------------------
\* a loadChat without its guard
LoadChatUnguarded(st, ref) ==
    LET chat == st.heap[ref]
    IN  [st EXCEPT !.chats = MapSet(@, chat.id, ref),
                   !.index = SearchUpdate(@, chat),
                   !.emitted = Append(@, EvChat(chat.id))]

\* loadChat(chat) applied to the store st = [heap, chats, index, emitted]; the
\* argument is the object heap[ref]
LoadChat(st, ref) ==
    LET chat == st.heap[ref]
    IN  IF chat.id = NoId THEN st
        ELSE [st EXCEPT !.chats = MapSet(@, chat.id, ref),
                        !.index = SearchUpdate(@, chat),
                        !.emitted = Append(@, EvChat(chat.id))]

RECURSIVE LoadAll(_, _)
\* the for loop of load over the stored chats
LoadAll(stored, st) ==
    IF stored = <<>> THEN st
    ELSE LET chat == [Head(stored) EXCEPT !.messages = Reconstruct(@)]
         IN  LoadAll(Tail(stored),
                     LoadChat([st EXCEPT !.heap = Append(@, chat)], Len(st.heap) + 1))

\* load(), from the moment idb.get has resolved
Load ==
    /\ loadPc = "reading"
    /\ LET st0 == [heap |-> heap, chats |-> chats, index |-> index, emitted |-> <<>>]
           st == IF durable # <<>> THEN LoadAll(durable[1], st0) ELSE st0
       IN  /\ heap' = st.heap
           /\ chats' = st.chats
           /\ index' = st.index
           /\ emitted' = IF durable # <<>> THEN Append(st.emitted, EvUpdate) ELSE <<>>
    /\ loaded' = TRUE
    /\ loadPc' = "done"
    /\ posted' = <<>>
    /\ lastOp' = [op |-> "load"]
    /\ lastError' = ""
    /\ changed' = Dirty(emitted')
    /\ UNCHANGED <<now, nextId, timers, turns, loopPc, pendingWrite, durable, flushFailed>>
    /\ UNCHANGED Counters

\* chat snapshots an outside caller can hand to loadChat: those the channel can carry
Snapshots == {e.data[1] : e \in {m \in Envelopes : m.data # <<>>}}

\* a call of loadChat with the object heap h holds at ref; n counts the snapshots
\* taken from outside
LoadChatStep(h, ref, n) ==
    LET st == LoadChat([heap |-> h, chats |-> chats, index |-> index, emitted |-> <<>>],
                       ref)
    IN  /\ heap' = st.heap
        /\ chats' = st.chats
        /\ index' = st.index
        /\ emitted' = st.emitted
        /\ posted' = <<>>
        /\ lastOp' = [op |-> "loadChat", ref |-> ref,
                      replaced |-> MapHas(chats, h[ref].id)]
        /\ lastError' = ""
        /\ changed' = Dirty(emitted')
        /\ nRecv' = n
        /\ UNCHANGED <<now, nextId, timers, turns, nCreate, turnCap>>
        /\ UNCHANGED Persist

\* loadChat called from outside: with a chat object the program already holds, or
\* with a snapshot from elsewhere
LoadChatCall ==
    \/ \E ref \in DOMAIN heap : LoadChatStep(heap, ref, nRecv)
    \/ /\ nRecv < MaxRecv
       /\ \E chat \in Snapshots : LoadChatStep(Append(heap, chat), Len(heap) + 1, nRecv + 1)

\* ---- search.query ------------------------------------------------------------------
\* texts a caller can search for
QueryTexts == {<<>>, <<" ">>, <<"\n", " ">>, <<"q">>}

\* what a search of the index can return: documents of the index, at most MaxHits
Hits ==
    {<<>>} \cup {<<d.id>> : d \in index}
    \cup (IF MaxHits >= 2
          THEN {<<d.id, e.id>> : d \in index, e \in index} ELSE {})

\* a call of search.query: reads the store, changes nothing
Query(query, fuzzy, prefix) ==
    /\ LET items == QueryItems(query, fuzzy, prefix, chats, heap)
       IN  lastOp' = [op |-> "query", query |-> query, items |-> items,
                      results |-> ProcessSearchResults(items, chats, heap)]
    /\ lastError' = ""
    /\ emitted' = <<>>
    /\ posted' = <<>>
    /\ changed' = Dirty(emitted')
    /\ UNCHANGED <<now, nextId, heap, chats, index, timers, turns>>
    /\ UNCHANGED Persist
    /\ UNCHANGED Counters

\* the index is searched only for a text that is not blank, and a second time only
\* when the first search's hits gave no result
SearchQuery ==
    \E query \in QueryTexts :
        IF Blank(query) THEN Query(query, <<>>, <<>>)
        ELSE \E fuzzy \in Hits :
                IF ProcessSearchResults(fuzzy, chats, heap) # <<>>
                THEN Query(query, fuzzy, <<>>)
                ELSE \E prefix \in Hits : Query(query, fuzzy, prefix)

\* ---- the persistence loop -----------------------------------------------------
\* a loop that flushes whenever the flag is set
TickGuardUnloaded == changed

\* the condition under which a tick flushes
TickGuard == loaded /\ changed

\* a tick that flushes: clears the flag, save() serializes and calls idb.set
Tick ==
    /\ loopPc = "sleeping"
    /\ TickGuard
    /\ changed' = FALSE
    /\ pendingWrite' = <<SerializeAll(chats, heap)>>
    /\ loopPc' = "writing"
    /\ emitted' = <<>>
    /\ posted' = <<>>
    /\ lastOp' = [op |-> "tick"]
    /\ lastError' = ""
    /\ UNCHANGED <<now, nextId, heap, chats, index, timers, turns, loaded, loadPc,
                   durable, flushFailed>>
    /\ UNCHANGED Counters

\* idb.set resolves: the loop goes back to sleep
WriteOK ==
    /\ loopPc = "writing"
    /\ durable' = pendingWrite
    /\ pendingWrite' = <<>>
    /\ loopPc' = "sleeping"
    /\ emitted' = <<>>
    /\ posted' = <<>>
    /\ lastOp' = [op |-> "writeOK"]
    /\ lastError' = ""
    /\ UNCHANGED <<now, nextId, heap, chats, index, timers, turns, loaded, loadPc,
                   changed, flushFailed>>
    /\ UNCHANGED Counters

\* idb.set rejects: `await this.save()` throws inside the loop body, which has no
\* try/catch, so the async function ends
WriteFail ==
    /\ loopPc = "writing"
    /\ flushFailed' = TRUE
    /\ pendingWrite' = <<>>
    /\ loopPc' = "dead"
    /\ emitted' = <<>>
    /\ posted' = <<>>
    /\ lastOp' = [op |-> "writeFail"]
    /\ lastError' = "unhandled rejection"
    /\ UNCHANGED <<now, nextId, heap, chats, index, timers, turns, loaded, loadPc,
                   changed, durable>>
    /\ UNCHANGED Counters

\* ---- specifications ---------------------------------------------------------------
\* the whole program
Next ==
    \/ CreateChat
    \/ SendMessage
    \/ Regenerate
    \/ Stream
    \/ SearchTimer
    \/ OnMessage
    \/ Load
    \/ LoadChatCall
    \/ SearchQuery
    \/ Tick
    \/ WriteOK
    \/ WriteFail

Spec == Init /\ [][Next]_vars

\* the chat operations and the reply turns; the steps left out (the persistence
\* loop and the search timers) read the chats and write only loopPc, pendingWrite,
\* durable, flushFailed, changed, index and timers
NextChat ==
    \/ CreateChat
    \/ SendMessage
    \/ Regenerate
    \/ Stream
    \/ OnMessage
    \/ Load

SpecChat == Init /\ [][NextChat]_vars

\* the persistence loop with the operations that create chats, change them and
\* emit 'update'
NextPersist ==
    \/ CreateChat
    \/ SendMessage
    \/ Stream
    \/ Load
    \/ Tick
    \/ WriteOK
    \/ WriteFail

SpecPersist == Init /\ [][NextPersist]_vars

\* the store and what fills it from outside: createChat, load, loadChat and the
\* replication channel
NextStore ==
    \/ CreateChat
    \/ OnMessage
    \/ Load
    \/ LoadChatCall

SpecStore == Init /\ [][NextStore]_vars

\* the persistence loop when every write to the durable store succeeds.  The read
\* of load resolves, the loop's sleep(100) ends and the write resolves: each of
\* these steps, once it can happen, does happen.
NextFlush ==
    \/ CreateChat
    \/ SendMessage
    \/ Stream
    \/ Load
    \/ Tick
    \/ WriteOK

SpecFlush ==
    /\ Init
    /\ [][NextFlush]_vars
    /\ WF_vars(Load)
    /\ WF_vars(Tick)
    /\ WF_vars(WriteOK)

\* reply turns on the chat of the durable store: two can be in flight together
NextTurns ==
    \/ Load
    \/ SendMessage
    \/ Regenerate
    \/ Stream

SpecTurns == InitTurns /\ [][NextTurns]_vars

\* the search over a store loaded from the durable store
NextQuery ==
    \/ Load
    \/ SearchQuery

SpecQuery == InitQuery /\ [][NextQuery]_vars

\* ---- properties -------------------------------------------------------------------
\* the node of turn i's reply in the tree of the chat object its handlers hold
ReplyNode(i) == NodeAt(heap[turns[i].chat].messages, turns[i].reply.id)

\* the turn an event of the last step was delivered to
LastTurn == turns[lastOp.turn]

\* C1: a reply turn whose transport has delivered its terminal event (data events,
\* then done or error) has left its reply with done = TRUE; no event follows the
\* terminal one, so a reply that is not done then stays pending for ever.
C1_TerminalReplyIsDone ==
    \A i \in DOMAIN turns : turns[i].term # "none" => ReplyNode(i).done

\* C2: when the transport emits error before any data event, the reply ends with the
\* fixed apology text and done = TRUE, and that snapshot is notified on the chat's
\* channel and on 'messages' and is broadcast.
C2_ErrorBeforeData ==
    (lastOp.op = "error" /\ LastTurn.nData = 0) =>
        LET chat == heap[LastTurn.chat]
            node == ReplyNode(lastOp.turn)
        IN  /\ node.content = ApologyText
            /\ node.done
            /\ LastTurn.reply = MessageOf(node)
            /\ emitted = <<EvChat(chat.id), EvMessages(<<MessageOf(node)>>)>>
            /\ posted = <<Envelope(chat)>>

C2_Witness == lastOp.op = "error" /\ LastTurn.nData = 0

\* C3 as claimed: when the transport emits error after at least one data event,
\* whatever text the data events carried, the reply's content is the text of the
\* last data event and the error causes no notification and no broadcast.
C3_ErrorAfterAnyData ==
    (lastOp.op = "error" /\ LastTurn.nData >= 1) =>
        /\ ReplyNode(lastOp.turn).content = LastTurn.lastData[1]
        /\ emitted = <<>>
        /\ posted = <<>>

\* C3 amended: when the transport emits error after at least one data event and the
\* last data event carried non-empty text, the reply's content is that text, its
\* done flag is as before, and the error causes no notification and no broadcast.
C3_ErrorAfterNonEmptyData ==
    (lastOp.op = "error" /\ LastTurn.nData >= 1 /\ LastTurn.lastData[1] # <<>>) =>
        /\ ReplyNode(lastOp.turn).content = LastTurn.lastData[1]
        /\ LastTurn.reply.content = LastTurn.lastData[1]
        /\ emitted = <<>>
        /\ posted = <<>>

C3_Witness ==
    lastOp.op = "error" /\ LastTurn.nData >= 2 /\ LastTurn.lastData = <<<<"a", "b">>>>

\* C4: sendMessage with a chatID that is not in the store fails with 'Chat not found'
\* and leaves every chat object (tree, updated), the store and the dirty flag as they
\* were, emits no event and posts nothing.
C4_SendToUnknownChat ==
    [][(lastOp'.op = "sendMessage" /\ lastOp'.chatID \notin Keys(chats)) =>
            /\ lastError' = "Chat not found"
            /\ heap' = heap
            /\ chats' = chats
            /\ changed' = changed
            /\ turns' = turns
            /\ emitted' = <<>>
            /\ posted' = <<>>]_vars

C4_Witness ==
    /\ lastOp.op = "sendMessage"
    /\ lastError = "Chat not found"
    /\ chats # <<>>

\* C5: a failed flush does not stop the persistence loop: once a flush has failed,
\* whenever the store is loaded and dirty again the loop is still there to flush it
\* (asleep until its next tick, or writing).
C5_FailedFlushKeepsLoop ==
    (flushFailed /\ loaded /\ changed) => loopPc \in {"sleeping", "writing"}

\* C6: no write to the durable store begins or lands before the initial load has
\* completed, and every write begins in a tick that found the dirty flag set,
\* cleared it, and serialized all chats then in the store; what lands in the store
\* is that snapshot.
C6_WritesOnlyWhenLoadedAndDirty ==
    [][/\ (pendingWrite' # pendingWrite /\ pendingWrite' # <<>>) =>
            /\ loaded
            /\ changed
            /\ ~changed'
            /\ pendingWrite' = <<[i \in DOMAIN chats |->
                                    [heap[chats[i].ref] EXCEPT
                                        !.messages = Serialize(@)]]>>
       /\ (durable' # durable) => (loaded /\ durable' = pendingWrite)]_vars

C6_Witness ==
    /\ loopPc = "writing"
    /\ pendingWrite # <<>>
    /\ Len(pendingWrite[1]) >= 2

C8_MalformedEnvelopeHarmless ==
    (lastOp.op = "onmessage"
        /\ (lastOp.message.data = <<>> \/ lastOp.message.data[1].id = NoId)) =>
        /\ lastError = ""
        /\ ~MapHas(chats, NoId)

\* C9: every step that adds a message to a chat's tree or changes a message's
\* content sets that chat's updated timestamp to the time of the step.
C9_UpdatedFollowsContent ==
    [][\A r \in DOMAIN heap :
            Serialize(heap'[r].messages) # Serialize(heap[r].messages) =>
                heap'[r].updated = now']_vars

\* C10: regenerate of any message of a known chat, a root message included, throws
\* nothing, adds no user message and adds exactly one assistant reply, empty and not
\* done, whose parent is the given message's parent, and starts a turn on it.
C10_RegenerateAddsSibling ==
    (lastOp.op = "regenerate" /\ MapHas(chats, lastOp.chatID)) =>
        /\ lastError = ""
        /\ LET tree == heap[MapGet(chats, lastOp.chatID)].messages
               last == tree[Len(tree)]
           IN  /\ last.id = lastOp.reply
               /\ last.parentID = lastOp.parentID
               /\ last.role = "assistant"
               /\ last.content = <<>>
               /\ ~last.done
               /\ turns[Len(turns)].reply = MessageOf(last)

\* C11: right after createChat has returned id, the store holds under id a chat with
\* that id, an empty message tree and created equal to updated; id was not a key of
\* the store before the call; exactly one 'chat-update' envelope, carrying that chat,
\* was posted.
C11_CreateChatResult ==
    [][lastOp'.op = "createChat" =>
            LET id == lastOp'.id
            IN  /\ ~MapHas(chats, id)
                /\ MapHas(chats', id)
                /\ LET chat == heap'[MapGet(chats', id)]
                   IN  /\ chat.id = id
                       /\ chat.messages = <<>>
                       /\ chat.created = chat.updated
                       /\ posted' = <<Envelope(chat)>>]_vars

\* C12: loadChat is an idempotent upsert: a second loadChat(c) right after the first
\* leaves the chat map and the search index as the first left them; the call
\* changes no map entry, no index document and no chat object other than those of
\* c.id, under which it stores c and indexes c's document; loadChat of a chat
\* without an id changes nothing and emits nothing.
C12_LoadChatIdempotentUpsert ==
    [][lastOp'.op = "loadChat" =>
            LET ref == lastOp'.ref
                c == heap'[ref]
                again == LoadChat([heap |-> heap', chats |-> chats', index |-> index',
                                   emitted |-> <<>>], ref)
            IN  /\ again.chats = chats'
                /\ again.index = index'
                /\ again.heap = heap'
                /\ \A i \in DOMAIN chats :
                        chats[i].key # c.id => (i \in DOMAIN chats' /\ chats'[i] = chats[i])
                /\ Keys(chats') \subseteq Keys(chats) \cup {c.id}
                /\ {d \in index' : d.id # c.id} = {d \in index : d.id # c.id}
                /\ \A r \in DOMAIN heap : heap'[r] = heap[r]
                /\ c.id # NoId =>
                        /\ MapGet(chats', c.id) = ref
                        /\ {d \in index' : d.id = c.id} = {SearchDoc(c)}
                        /\ emitted' = <<EvChat(c.id)>>
                /\ c.id = NoId =>
                        /\ chats' = chats
                        /\ index' = index
                        /\ emitted' = <<>>]_vars

\* loadChat has replaced the chat of a key, in a store with a second entry
C12_Witness ==
    /\ lastOp.op = "loadChat"
    /\ lastOp.replaced
    /\ heap[lastOp.ref].id # NoId
    /\ Len(chats) >= 2

\* the updated stamp of the k-th chat of the store, and of the chat stored under id
UpdatedAt(k) == heap[chats[k].ref].updated
UpdatedOf(id) == heap[MapGet(chats, id)].updated

\* the number of chats of the store that are listed before its k-th chat when the
\* chats are ordered by descending updated, chats of equal updated in store order
Rank(k) ==
    Cardinality({j \in DOMAIN chats :
                    \/ UpdatedAt(j) > UpdatedAt(k)
                    \/ UpdatedAt(j) = UpdatedAt(k) /\ j < k})

\* the k-th chat of the store has a first message with content
HasDescription(k) ==
    LET tree == heap[chats[k].ref].messages
    IN  tree # <<>> /\ tree[1].content # <<>>

\* C13 as claimed: query with an empty or whitespace-only text returns the 10 most
\* recently updated chats of the store, all of them when the store has fewer, in
\* descending order of updated.
C13_BlankQueryListsRecent ==
    (lastOp.op = "query" /\ Trim(lastOp.query) = <<>>) =>
        LET res == lastOp.results
            ids == {res[i].chatID : i \in DOMAIN res}
        IN  /\ Len(res) = IF Len(chats) < QueryLimit THEN Len(chats) ELSE QueryLimit
            /\ Cardinality(ids) = Len(res)
            /\ ids \subseteq Keys(chats)
            /\ \A i \in DOMAIN res, j \in DOMAIN res :
                    i < j => UpdatedOf(res[i].chatID) >= UpdatedOf(res[j].chatID)
            /\ \A k \in DOMAIN chats, i \in DOMAIN res :
                    chats[k].key \notin ids => UpdatedOf(res[i].chatID) >= UpdatedAt(k)

\* C13 amended: query with an empty or whitespace-only text takes the 10 most
\* recently updated chats of the store (all when there are fewer; chats of equal
\* updated in store order) and returns, in descending order of updated, those of
\* them whose first message has content: a chat with an empty tree or an empty
\* first message is left out and no older chat takes its place.
C13_BlankQueryListsRecentDescribed ==
    (lastOp.op = "query" /\ Trim(lastOp.query) = <<>>) =>
        LET res == lastOp.results
            listed == {k \in DOMAIN chats : Rank(k) < QueryLimit /\ HasDescription(k)}
        IN  /\ Len(res) = Cardinality(listed)
            /\ \A i \in DOMAIN res :
                    \E k \in listed :
                        /\ chats[k].key = res[i].chatID
                        /\ Cardinality({j \in listed : Rank(j) < Rank(k)}) = i - 1

\* a blank query on a store of more than 10 chats that are not stored in the order
\* of their updated stamps, one of the 10 most recent without a description
C13_Witness ==
    /\ lastOp.op = "query"
    /\ Trim(lastOp.query) = <<>>
    /\ lastOp.query # <<>>
    /\ Len(chats) > QueryLimit
    /\ Len(lastOp.results) = QueryLimit - 1
    /\ \E j \in DOMAIN chats, k \in DOMAIN chats : j < k /\ UpdatedAt(j) < UpdatedAt(k)

\* C20: in the post-processing of a query's hits, a hit whose chat is in the store
\* is dropped exactly when the chat has neither a title nor a first message with
\* content; a chat with a title is returned also when its first message is empty
\* or missing.
C20_DropsOnlyWhenLackingBoth ==
    lastOp.op = "query" =>
        \A n \in DOMAIN lastOp.items :
            LET id == lastOp.items[n]
                chat == heap[MapGet(chats, id)]
                returned == \E i \in DOMAIN lastOp.results : lastOp.results[i].chatID = id
                described == chat.messages # <<>> /\ chat.messages[1].content # <<>>
            IN  MapHas(chats, id) =>
                    /\ ~returned <=> (~Truthy(chat.title) /\ ~described)
                    /\ Truthy(chat.title) => returned

\* an event of turn i has written its reply (a data event, done, or the apology)
Wrote(i) ==
    \/ turns[i].nData > 0
    \/ turns[i].term = "done"
    \/ turns[i].term = "error" /\ turns[i].reply.done

\* two different turns whose events have written one reply message of one chat
SharedReply ==
    \E i \in DOMAIN turns, j \in DOMAIN turns :
        /\ i # j
        /\ turns[i].chat = turns[j].chat
        /\ turns[i].reply.id = turns[j].reply.id
        /\ Wrote(i)
        /\ Wrote(j)

\* C14 as claimed: two reply turns in flight together on one chat interleave their
\* stream events into one reply node: when both have written, there is a reply
\* message of the chat that events of both streams have written.
C14_TurnsShareReplyNode ==
    (\E i \in DOMAIN turns, j \in DOMAIN turns :
        /\ i # j
        /\ turns[i].chat = turns[j].chat
        /\ Wrote(i)
        /\ Wrote(j)) => SharedReply

\* C14 amended: two reply turns in flight together on one chat interleave their
\* stream events in that chat's tree, but never in one reply node: every turn has
\* a reply message of its own, and an event of a turn changes no node but that one.
C14_TurnsWriteOwnReply ==
    [][/\ \A i \in DOMAIN turns', j \in DOMAIN turns' :
            i # j => turns'[i].reply.id # turns'[j].reply.id
       /\ lastOp'.op \in {"data", "done", "error"} =>
            \A r \in DOMAIN heap : \A n \in DOMAIN heap[r].messages :
                (r # turns[lastOp'.turn].chat
                    \/ heap[r].messages[n].id # turns[lastOp'.turn].reply.id) =>
                        heap'[r].messages[n] = heap[r].messages[n]]_vars

\* two turns are streaming on one chat and each has had a data event, the first
\* one's last after the second one's first
C14_Witness ==
    /\ Len(turns) = 2
    /\ turns[1].chat = turns[2].chat
    /\ turns[1].pc = "streaming"
    /\ turns[2].pc = "streaming"
    /\ turns[2].nData > 0
    /\ lastOp.op = "data"
    /\ lastOp.turn = 1

\* C18: under the transport contract (data events, then one done or error), no
\* reply's done goes from TRUE back to FALSE, and once a turn has had its terminal
\* event no later step changes its reply's content or done, whatever other turns,
\* calls and title requests do on the same chat.
C18_TerminalReplyFrozen ==
    [][\A i \in DOMAIN turns :
            LET old == ReplyNode(i)
                new == NodeAt(heap'[turns[i].chat].messages, turns[i].reply.id)
            IN  /\ old.done => new.done
                /\ turns[i].term # "none" =>
                        (new.content = old.content /\ new.done = old.done)]_vars

\* a turn that has ended, while another turn on the same chat has just written
C18_Witness ==
    /\ Len(turns) = 2
    /\ turns[1].chat = turns[2].chat
    /\ turns[1].term # "none"
    /\ lastOp.op \in {"data", "done", "error"}
    /\ lastOp.turn = 2

\* C15: every stream event of a reply turn is applied to the chat the store holds
\* under the turn's chat id at that moment: right after a data event, a done event
\* or an error that wrote the apology, get(chatID) contains the turn's reply with
\* the content and done the event gave it, also when an envelope or a loadChat for
\* that chat id was applied while the turn was in flight.
C15_EventsReachStoredChat ==
    (lastOp.op \in {"data", "done", "error"}
        /\ (lastOp.op = "error" => LastTurn.reply.done)) =>
        LET id == LastTurn.reply.chatID
        IN  /\ MapHas(chats, id)
            /\ LET tree == heap[MapGet(chats, id)].messages
               IN  /\ HasNode(tree, LastTurn.reply.id)
                   /\ MessageOf(NodeAt(tree, LastTurn.reply.id)) = LastTurn.reply

\* C19: sendMessage on a known chat leaves the messages the tree had as they were
\* and adds exactly two: a user message, done, whose parent is the submission's
\* parentID, and after it an assistant reply, empty and not done, whose parent is
\* the new user message; the context of the turn it starts is the chain from the
\* root to the new user message, the reply not in it; two envelopes are posted,
\* the first with the tree up to the user message, the second with the reply too.
C19_SendMessageAddsTurn ==
    [][(lastOp'.op = "sendMessage" /\ lastError' = "") =>
            LET ref == MapGet(chats, lastOp'.chatID)
                old == heap[ref].messages
                new == heap'[ref].messages
                n == Len(old)
                user == new[n + 1]
                reply == new[n + 2]
                turn == turns'[Len(turns')]
                ctx == turn.context
            IN  /\ chats' = chats
                /\ Len(new) = n + 2
                /\ Serialize(SubSeq(new, 1, n)) = Serialize(old)
                /\ ~HasNode(old, user.id)
                /\ ~HasNode(old, reply.id)
                /\ user.id # reply.id
                /\ user.role = "user"
                /\ user.done
                /\ user.parentID = lastOp'.parentID
                /\ reply.role = "assistant"
                /\ reply.content = <<>>
                /\ ~reply.done
                /\ reply.parentID = user.id
                /\ Len(turns') = Len(turns) + 1
                /\ turn.chat = ref
                /\ turn.reply = MessageOf(reply)
                /\ ctx[Len(ctx)] = user.id
                /\ NodeAt(new, ctx[1]).parentID = NoId
                /\ \A k \in 1 .. Len(ctx) - 1 : NodeAt(new, ctx[k + 1]).parentID = ctx[k]
                /\ \A k \in DOMAIN ctx : ctx[k] # reply.id
                /\ Len(posted') = 2
                /\ posted'[1].type = "chat-update"
                /\ posted'[2].type = "chat-update"
                /\ Serialize(posted'[1].data[1].messages) = Serialize(SubSeq(new, 1, n + 1))
                /\ posted'[2].data[1] = heap'[ref]]_vars

\* sendMessage under a message that has a parent: the context has three messages
C19_Witness ==
    /\ lastOp.op = "sendMessage"
    /\ lastError = ""
    /\ lastOp.parentID # NoId
    /\ Len(turns[Len(turns)].context) >= 3

\* C16: once the initial load has completed, every step that changes what a flush
\* would write (a chat created, a message added, a reply's content or done
\* changed, a title set, a received chat stored) leaves the dirty flag set, so that
\* the next tick flushes a snapshot containing the change and no later change is
\* needed to bring that flush about.
C16_MutationMarksDirty ==
    [][(loaded /\ SerializeAll(chats', heap') # SerializeAll(chats, heap)) =>
            changed']_vars

\* the last step emitted 'update'
UpdateEmitted == \E i \in DOMAIN emitted : emitted[i] = EvUpdate

\* the last step was a tick that began a flush: it serialized the store as it was
FlushStarted == lastOp.op = "tick" /\ loopPc = "writing"

\* C17: when the writes to the durable store succeed, no 'update' is lost: every
\* 'update' emitted, be it before the load has completed, between two ticks or
\* while a flush awaits its write, is followed by a tick that begins a flush, whose
\* serialization thus starts after the emission.
C17_UpdateLeadsToFlush == UpdateEmitted ~> FlushStarted

\* an 'update' is emitted while a flush awaits its write
C17_Witness == UpdateEmitted /\ loopPc = "writing"

====
